---- MODULE Spec2Model ----
(***************************************************************************)
(* RAGFlowMinio (rag/utils/minio_conn.py): a process-wide client that      *)
(* wraps one Minio connection handle and offers put, rm, get, obj_exist,   *)
(* bucket_exists, get_presigned_url, remove_bucket, copy, move and health. *)
(*                                                                         *)
(* The model is a state machine of caller threads.  Every statement of a   *)
(* method that reads or writes self.conn or sends a request to the         *)
(* storage service is one step; a thread's position is th[t].pc.  The      *)
(* storage service is the set of buckets and the map of objects; a         *)
(* request is atomic at the service.  The environment may make a request   *)
(* fail (inject = TRUE) with a plain Exception ("exc") or with an S3Error  *)
(* whose code is not a not-found code ("AccessDenied").                    *)
(***************************************************************************)
EXTENDS Naturals, Integers, FiniteSets, Sequences, TLC

\* ------------------------------------------------------------ bounds
\* Calls a thread begins in one behaviour of Spec.
MaxOps == 3

\* ------------------------------------------------------------ domains
Buckets == {"a", "b"}
Keys == {"k1", "k2"}
KeyOrder == <<"k1", "k2">>
Bytes == {"x", "y"}
Prefixes == {"", "p"}
\* os.getenv('MINIO_HEALTH_BUCKET', ''), the health object and its content
HealthBucket == "h"
HealthKey == "txtxtxtxt1"
HealthBinary == "_t@@@1"

\* self.conn: None, or no attribute at all (after del self.conn), or a handle > 0
NoConn == 0
NoAttr == -1

\* a variant with one more iteration of put's loop
PutAttemptsBug == 3 + 1

\* a variant with one more iteration of get_presigned_url's loop
PresignAttemptsBug == 10 + 1

\* a variant with one more iteration of get's loop
GetAttemptsBug == 1 + 1

\* range(3) in put, range(1) in get, range(10) in get_presigned_url
PutAttempts == 3
GetAttempts == 1
PresignAttempts == 10

NotFoundCodes == {"NoSuchKey", "NoSuchBucket", "ResourceNotFound"}

VARIABLES
  prefix,    \* settings.MINIO_BUCKET_PREFIX
  buckets,   \* the service: names of the buckets that exist
  objects,   \* the service: <<bucket, key>> -> content, for the objects that exist
  conn,      \* self.conn
  th,        \* per thread: position, arguments, locals and the record of the call
  note,      \* per logical (bucket, key): what the last call naming it did to it
  nops,      \* calls begun so far
  inject     \* whether the environment makes requests fail

vars == <<prefix, buckets, objects, conn, th, note, nops, inject>>

\* ------------------------------------------------------------ _with_prefix
WithPrefix(pfx, bucket) == IF pfx /= "" THEN pfx \o "-" \o bucket ELSE bucket

_with_prefix(bucket) == WithPrefix(prefix, bucket)

\* the service with no object
NoObjects == [p \in {} |-> ""]

\* ------------------------------------------------------------ thread records
\* the outcome of an earlier run of the same call (none yet)
NoRun ==
  [res |-> "pending", names |-> {}, i |-> 0, fails |-> 0, opens |-> 0,
   rmIssued |-> FALSE, objects |-> NoObjects, buckets |-> {}, conn |-> NoConn]

IdleT ==
  [pc |-> "idle", op |-> "none",
   bucket |-> "", fnm |-> "", binary |-> "", dest_bucket |-> "", dest_path |-> "",
   c_src |-> "", c_dst |-> "", r_bucket |-> "",
   i |-> 0, todo |-> {}, res |-> "pending", copied |-> "none",
   upset |-> FALSE, anyOk |-> FALSE, names |-> {}, opens |-> 0, fails |-> 0,
   pauses |-> 0,
   rmIssued |-> FALSE, cpIssued |-> FALSE,
   objs0 |-> NoObjects, bkts0 |-> {}, conn0 |-> NoConn, made |-> FALSE,
   tenant_id |-> "None", run |-> 0, first |-> NoRun]

Unknown == [how |-> "?", val |-> ""]

Set(t, r) == th' = [th EXCEPT ![t] = r]

\* the call returns v to its caller
Done(r, v) == [r EXCEPT !.pc = "done", !.res = v]

\* ------------------------------------------------------------ the service
PutObj(objs, pb, k, v) ==
  [p \in DOMAIN objs \cup {<<pb, k>>} |-> IF p = <<pb, k>> THEN v ELSE objs[p]]

DelObj(objs, pb, k) == [p \in DOMAIN objs \ {<<pb, k>>} |-> objs[p]]

HasObj(pb, k) == <<pb, k>> \in DOMAIN objects

\* a variant of the listing that stops after the first key in key order
KeysInFirstOnly(pb) == {k \in Keys : HasObj(pb, k) /\ k = KeyOrder[1]}

KeysIn(pb) == {k \in Keys : HasObj(pb, k)}

\* the listing is in key order: the first key of a non-empty set of keys
FirstKey(ks) ==
  KeyOrder[CHOOSE n \in 1..Len(KeyOrder) :
             KeyOrder[n] \in ks /\ \A m \in 1..(n - 1) : KeyOrder[m] \notin ks]

\* what a request may do: answer, or fail as the environment decides
Outcomes == IF inject THEN {"ok", "exc", "AccessDenied"} ELSE {"ok"}

\* a request through self.conn: with no handle the attribute access itself raises
Usable == conn > NoConn

\* the request was sent for bucket pb and answered (or refused) by the service
Sent(r, pb) == [r EXCEPT !.names = @ \cup {pb}]
Answered(r, pb) == [r EXCEPT !.names = @ \cup {pb}, !.anyOk = TRUE]

\* ------------------------------------------------------------ returns and handlers
\* rm returns: to move (which then returns True, line 189) or to the caller
RmReturn(r) == IF r.op = "move" THEN Done(r, "True") ELSE Done(r, "None")

\* a variant of move that deletes the source whatever copy returned
CopyReturnAlwaysRm(r, v) ==
  IF r.op = "move"
  THEN [r EXCEPT !.copied = v, !.pc = "rm_object", !.r_bucket = _with_prefix(r.bucket)]
  ELSE Done(r, v)

\* copy returns v: to move (lines 187-192) or to the caller
CopyReturn(r, v) ==
  IF r.op = "move"
  THEN IF v = "True"
       THEN [r EXCEPT !.copied = v, !.pc = "rm_object", !.r_bucket = _with_prefix(r.bucket)]
       ELSE Done([r EXCEPT !.copied = v], "False")
  ELSE Done(r, v)

\* the method whose statement is at r.pc: rm and copy also run inside move
Frame(r) ==
  CASE r.pc = "rm_object" -> "rm"
    [] r.pc \in {"cp_exists", "cp_make", "cp_stat", "cp_copy"} -> "copy"
    [] OTHER -> r.op

\* a variant in which rm has no try either
HasTryNotRm(m) == m \notin {"health", "rm"}

\* the methods whose body is inside try/except Exception: all but health (59-69)
HasTry(m) == m /= "health"

\* a variant in which put's handler does not reconnect
ReopensNotPut(m) == m \in {"get", "get_presigned_url"}

\* a variant in which get's handler does not reconnect
ReopensNotGet(m) == m \in {"put", "get_presigned_url"}

\* the methods whose handler calls self.__open__() (lines 85, 103, 144)
Reopens(m) == m \in {"put", "get", "get_presigned_url"}

\* obj_exist and bucket_exists on an exception e (lines 116-121, 130-135):
\* an S3Error with a not-found code gives False, an S3Error with another code
\* leaves the except clause without a return (no result); any other Exception
\* gives False
ExistsOnError(e) ==
  IF e = "exc" THEN "False"
  ELSE IF e \in NotFoundCodes THEN "False" ELSE "None"

\* An exception e is raised at r.pc: the except clause that catches it.
\*   e: "exc" (an Exception that is no S3Error) or the code of an S3Error;
\*   env: the environment caused it (a failed request or a missing handle).
Except(r, e, env) ==
  LET q == [r EXCEPT !.upset = @ \/ env, !.fails = @ + 1]
      m == Frame(r)
  IN
  CASE ~HasTry(m) ->
         \* nothing catches it in m; move's own handler returns False (193-195)
         IF r.op = "move" THEN Done(q, "False") ELSE Done(q, "raised")
    [] HasTry(m) /\ m = "rm" -> RmReturn(q)
    [] HasTry(m) /\ m = "copy" -> CopyReturn(q, "False")
    [] HasTry(m) /\ m \in {"put", "get", "get_presigned_url"} ->
         [q EXCEPT !.pc = IF Reopens(m) THEN "open_if" ELSE "sleep"]
    [] HasTry(m) /\ m \in {"obj_exist", "bucket_exists"} -> Done(q, ExistsOnError(e))
    [] OTHER -> Done(q, "None")

\* the request for bucket pb gets no answer: self.conn is no handle, or the
\* environment fails the request
Fails(t, pb) ==
  /\ UNCHANGED <<buckets, objects>>
  /\ IF Usable
     THEN \E f \in Outcomes \ {"ok"} : Set(t, Except(Sent(th[t], pb), f, TRUE))
     ELSE Set(t, Except(th[t], "exc", TRUE))

\* the service refuses the request with an S3Error
Refused(t, pb, e) ==
  /\ UNCHANGED <<buckets, objects>>
  /\ Set(t, Except(Answered(th[t], pb), e, FALSE))

\* ------------------------------------------------------------ __open__ / __close__
\* Minio(...) returns a new object.  A handle is named by the identity Python
\* gives it: one that no live object has.  The only lasting reference to a
\* handle is self.conn, so the identity of a discarded handle is free again.
NewHandle == CHOOSE h \in 1..2 : h /= conn

\* a variant of __open__ that does not close the connection it holds
open_if_keep(t) ==
  /\ th[t].pc = "open_if"
  /\ UNCHANGED <<prefix, buckets, objects, conn, note, nops, inject>>
  /\ Set(t, [th[t] EXCEPT !.pc = "open_new"])

\* line 40: if self.conn
open_if(t) ==
  /\ th[t].pc = "open_if"
  /\ UNCHANGED <<prefix, buckets, objects, conn, note, nops, inject>>
  /\ IF conn > NoConn
     THEN Set(t, [th[t] EXCEPT !.pc = "close_del"])
     ELSE Set(t, [th[t] EXCEPT !.pc = "open_new"])

\* line 56: del self.conn (an AttributeError is swallowed at lines 42-43)
close_del(t) ==
  /\ th[t].pc = "close_del"
  /\ UNCHANGED <<prefix, buckets, objects, note, nops, inject>>
  /\ IF conn = NoAttr
     THEN /\ Set(t, [th[t] EXCEPT !.pc = "open_new"])
          /\ UNCHANGED conn
     ELSE /\ conn' = NoAttr
          /\ Set(t, [th[t] EXCEPT !.pc = "close_none"])

\* line 57: self.conn = None
close_none(t) ==
  /\ th[t].pc = "close_none"
  /\ UNCHANGED <<prefix, buckets, objects, note, nops, inject>>
  /\ conn' = NoConn
  /\ Set(t, [th[t] EXCEPT !.pc = "open_new"])

\* a variant in which put starts its next attempt without the pause
OpenReturnNoPause(r) ==
  CASE r.op = "__init__" -> Done(r, "None")
    [] r.op = "put" /\ r.i < PutAttempts -> [r EXCEPT !.pc = "put_exists", !.i = @ + 1]
    [] OTHER -> [r EXCEPT !.pc = "sleep"]

\* __open__ returns: to __init__, which ends (line 32), or to the handler of
\* put, get or get_presigned_url, which pauses next (lines 86, 104, 145)
OpenReturn(r) ==
  IF r.op = "__init__" THEN Done(r, "None") ELSE [r EXCEPT !.pc = "sleep"]

\* a variant in which __open__ returns without having created a handle
open_new_nothing(t) ==
  /\ th[t].pc = "open_new"
  /\ UNCHANGED <<prefix, buckets, objects, conn, note, nops, inject>>
  /\ Set(t, OpenReturn([th[t] EXCEPT !.opens = @ + 1, !.made = FALSE]))

\* lines 45-53: self.conn = Minio(...), a failure only logged
open_new(t) ==
  /\ th[t].pc = "open_new"
  /\ UNCHANGED <<prefix, buckets, objects, note, nops, inject>>
  /\ \E ok \in (IF inject THEN BOOLEAN ELSE {TRUE}) :
       /\ conn' = IF ok THEN NewHandle ELSE conn
       /\ Set(t, OpenReturn([th[t] EXCEPT !.opens = @ + 1, !.made = ok]))

Attempts(op) ==
  CASE op = "put" -> PutAttempts
    [] op = "get" -> GetAttempts
    [] OTHER -> PresignAttempts

FirstStep(op) ==
  CASE op = "put" -> "put_exists"
    [] op = "get" -> "get_object"
    [] OTHER -> "ps_url"

\* time.sleep(1), then the next iteration of the for loop or, past the last one,
\* the end of the method (no result)
sleep(t) ==
  /\ th[t].pc = "sleep"
  /\ UNCHANGED <<prefix, buckets, objects, conn, note, nops, inject>>
  /\ LET r == [th[t] EXCEPT !.pauses = @ + 1] IN
     IF r.i < Attempts(r.op)
     THEN Set(t, [r EXCEPT !.pc = FirstStep(r.op), !.i = @ + 1])
     ELSE Set(t, Done(r, "None"))

\* ------------------------------------------------------------ calls
\* a caller enters a method: the record of the call starts from the state as it is
Enter(t, r) ==
  /\ th[t].pc = "idle"
  /\ nops < MaxOps
  /\ nops' = nops + 1
  /\ Set(t, [r EXCEPT !.objs0 = objects, !.bkts0 = buckets, !.conn0 = conn])
  /\ UNCHANGED <<prefix, buckets, objects, conn, note, inject>>

CallHealth(t) ==
  Enter(t, [IdleT EXCEPT !.op = "health", !.pc = "h_exists", !.bucket = HealthBucket,
                         !.fnm = HealthKey, !.binary = HealthBinary])

CallPut(t) ==
  \E b \in Buckets, k \in Keys, v \in Bytes :
    Enter(t, [IdleT EXCEPT !.op = "put", !.pc = "put_exists", !.i = 1,
                           !.bucket = b, !.fnm = k, !.binary = v])

CallRm(t) ==
  \E b \in Buckets, k \in Keys :
    Enter(t, [IdleT EXCEPT !.op = "rm", !.pc = "rm_object",
                           !.bucket = b, !.fnm = k, !.r_bucket = b])

CallGet(t) ==
  \E b \in Buckets, k \in Keys :
    Enter(t, [IdleT EXCEPT !.op = "get", !.pc = "get_object", !.i = 1,
                           !.bucket = b, !.fnm = k])

CallObjExist(t) ==
  \E b \in Buckets, k \in Keys :
    Enter(t, [IdleT EXCEPT !.op = "obj_exist", !.pc = "oe_exists",
                           !.bucket = b, !.fnm = k])

CallBucketExists(t) ==
  \E b \in Buckets :
    Enter(t, [IdleT EXCEPT !.op = "bucket_exists", !.pc = "be_exists", !.bucket = b])

CallPresign(t) ==
  \E b \in Buckets, k \in Keys :
    Enter(t, [IdleT EXCEPT !.op = "get_presigned_url", !.pc = "ps_url", !.i = 1,
                           !.bucket = b, !.fnm = k])

CallRemoveBucket(t) ==
  \E b \in Buckets :
    Enter(t, [IdleT EXCEPT !.op = "remove_bucket", !.pc = "rb_exists", !.bucket = b])

CallCopy(t) ==
  \E b \in Buckets, k \in Keys, db \in Buckets, dk \in Keys :
    Enter(t, [IdleT EXCEPT !.op = "copy", !.pc = "cp_exists",
                           !.bucket = b, !.fnm = k, !.dest_bucket = db, !.dest_path = dk,
                           !.c_src = b, !.c_dst = db])

\* move computes the prefixed names (lines 185-186) and passes them to copy
\* (line 187), which receives them as its src_bucket and dest_bucket
CallMove(t) ==
  \E b \in Buckets, k \in Keys, db \in Buckets, dk \in Keys :
    Enter(t, [IdleT EXCEPT !.op = "move", !.pc = "cp_exists",
                           !.bucket = b, !.fnm = k, !.dest_bucket = db, !.dest_path = dk,
                           !.c_src = _with_prefix(b), !.c_dst = _with_prefix(db)])

\* ------------------------------------------------------------ health (59-69)
h_exists(t) ==
  LET r == th[t]  pb == _with_prefix(r.bucket) IN
  /\ r.pc = "h_exists"
  /\ UNCHANGED <<prefix, conn, note, nops, inject>>
  /\ \/ Fails(t, pb)
     \/ /\ Usable
        /\ UNCHANGED <<buckets, objects>>
        /\ Set(t, [Answered(r, pb) EXCEPT
                     !.pc = IF pb \in buckets THEN "h_put" ELSE "h_make"])

h_make(t) ==
  LET r == th[t]  pb == _with_prefix(r.bucket) IN
  /\ r.pc = "h_make"
  /\ UNCHANGED <<prefix, conn, note, nops, inject>>
  /\ \/ Fails(t, pb)
     \/ /\ Usable
        /\ IF pb \in buckets
           THEN Refused(t, pb, "BucketAlreadyOwnedByYou")
           ELSE /\ buckets' = buckets \cup {pb}
                /\ UNCHANGED objects
                /\ Set(t, [Answered(r, pb) EXCEPT !.pc = "h_put"])

h_put(t) ==
  LET r == th[t]  pb == _with_prefix(r.bucket) IN
  /\ r.pc = "h_put"
  /\ UNCHANGED <<prefix, conn, note, nops, inject>>
  /\ \/ Fails(t, pb)
     \/ /\ Usable
        /\ IF pb \notin buckets
           THEN Refused(t, pb, "NoSuchBucket")
           ELSE /\ objects' = PutObj(objects, pb, r.fnm, r.binary)
                /\ UNCHANGED buckets
                /\ Set(t, Done(Answered(r, pb), "Result"))

\* ------------------------------------------------------------ put (71-86)
put_exists(t) ==
  LET r == th[t]  pb == _with_prefix(r.bucket) IN
  /\ r.pc = "put_exists"
  /\ UNCHANGED <<prefix, conn, note, nops, inject>>
  /\ \/ Fails(t, pb)
     \/ /\ Usable
        /\ UNCHANGED <<buckets, objects>>
        /\ Set(t, [Answered(r, pb) EXCEPT
                     !.pc = IF pb \in buckets THEN "put_object" ELSE "put_make"])

put_make(t) ==
  LET r == th[t]  pb == _with_prefix(r.bucket) IN
  /\ r.pc = "put_make"
  /\ UNCHANGED <<prefix, conn, note, nops, inject>>
  /\ \/ Fails(t, pb)
     \/ /\ Usable
        /\ IF pb \in buckets
           THEN Refused(t, pb, "BucketAlreadyOwnedByYou")
           ELSE /\ buckets' = buckets \cup {pb}
                /\ UNCHANGED objects
                /\ Set(t, [Answered(r, pb) EXCEPT !.pc = "put_object"])

put_object(t) ==
  LET r == th[t]  pb == _with_prefix(r.bucket) IN
  /\ r.pc = "put_object"
  /\ UNCHANGED <<prefix, conn, note, nops, inject>>
  /\ \/ Fails(t, pb)
     \/ /\ Usable
        /\ IF pb \notin buckets
           THEN Refused(t, pb, "NoSuchBucket")
           ELSE /\ objects' = PutObj(objects, pb, r.fnm, r.binary)
                /\ UNCHANGED buckets
                /\ Set(t, Done(Answered(r, pb), "Result"))

\* ------------------------------------------------------------ rm (88-93)
\* remove_object: deleting a key that is absent is no error at the service
rm_object(t) ==
  LET r == th[t]  pb == _with_prefix(r.r_bucket) IN
  /\ r.pc = "rm_object"
  /\ UNCHANGED <<prefix, conn, note, nops, inject>>
  /\ \/ Fails(t, pb)
     \/ /\ Usable
        /\ IF pb \notin buckets
           THEN Refused(t, pb, "NoSuchBucket")
           ELSE /\ objects' = DelObj(objects, pb, r.fnm)
                /\ UNCHANGED buckets
                /\ Set(t, RmReturn([Answered(r, pb) EXCEPT !.rmIssued = TRUE]))

\* ------------------------------------------------------------ get (95-105)
\* a variant that passes the caller's bucket name as it is
GetArgsRaw(r) == <<r.bucket, r.fnm>>

\* a variant that keeps each tenant's objects in a bucket of its own
GetArgsPerTenant(r) ==
  <<IF r.tenant_id = "None" THEN _with_prefix(r.bucket)
    ELSE _with_prefix(r.tenant_id \o "-" \o r.bucket), r.fnm>>

\* lines 98-99: the bucket and key get_object is called with
GetArgs(r) == <<_with_prefix(r.bucket), r.fnm>>

\* get_object and r.read()
get_object(t) ==
  LET r == th[t]  pb == GetArgs(r)[1]  k == GetArgs(r)[2] IN
  /\ r.pc = "get_object"
  /\ UNCHANGED <<prefix, conn, note, nops, inject>>
  /\ \/ Fails(t, pb)
     \/ /\ Usable
        /\ IF HasObj(pb, k)
           THEN /\ UNCHANGED <<buckets, objects>>
                /\ Set(t, Done(Answered(r, pb), objects[<<pb, k>>]))
           ELSE Refused(t, pb, IF pb \in buckets THEN "NoSuchKey" ELSE "NoSuchBucket")

\* ------------------------------------------------------------ obj_exist (107-121)
oe_exists(t) ==
  LET r == th[t]  pb == _with_prefix(r.bucket) IN
  /\ r.pc = "oe_exists"
  /\ UNCHANGED <<prefix, conn, note, nops, inject>>
  /\ \/ Fails(t, pb)
     \/ /\ Usable
        /\ UNCHANGED <<buckets, objects>>
        /\ Set(t, IF pb \in buckets
                  THEN [Answered(r, pb) EXCEPT !.pc = "oe_stat"]
                  ELSE Done(Answered(r, pb), "False"))

oe_stat(t) ==
  LET r == th[t]  pb == _with_prefix(r.bucket) IN
  /\ r.pc = "oe_stat"
  /\ UNCHANGED <<prefix, conn, note, nops, inject>>
  /\ \/ Fails(t, pb)
     \/ /\ Usable
        /\ IF HasObj(pb, r.fnm)
           THEN /\ UNCHANGED <<buckets, objects>>
                /\ Set(t, Done(Answered(r, pb), "True"))
           ELSE Refused(t, pb, IF pb \in buckets THEN "NoSuchKey" ELSE "NoSuchBucket")

\* ------------------------------------------------------------ bucket_exists (123-135)
be_exists(t) ==
  LET r == th[t]  pb == _with_prefix(r.bucket) IN
  /\ r.pc = "be_exists"
  /\ UNCHANGED <<prefix, conn, note, nops, inject>>
  /\ \/ Fails(t, pb)
     \/ /\ Usable
        /\ UNCHANGED <<buckets, objects>>
        /\ Set(t, Done(Answered(r, pb), IF pb \in buckets THEN "True" ELSE "False"))

\* ------------------------------------------------------------ get_presigned_url (137-146)
ps_url(t) ==
  LET r == th[t]  pb == _with_prefix(r.bucket) IN
  /\ r.pc = "ps_url"
  /\ UNCHANGED <<prefix, conn, note, nops, inject>>
  /\ \/ Fails(t, pb)
     \/ /\ Usable
        /\ UNCHANGED <<buckets, objects>>
        /\ Set(t, Done(Answered(r, pb), "Url"))

\* ------------------------------------------------------------ remove_bucket (148-157)
rb_exists(t) ==
  LET r == th[t]  pb == _with_prefix(r.bucket) IN
  /\ r.pc = "rb_exists"
  /\ UNCHANGED <<prefix, conn, note, nops, inject>>
  /\ \/ Fails(t, pb)
     \/ /\ Usable
        /\ UNCHANGED <<buckets, objects>>
        /\ Set(t, IF pb \in buckets
                  THEN [Answered(r, pb) EXCEPT !.pc = "rb_list"]
                  ELSE Done(Answered(r, pb), "None"))

\* list_objects(pbucket, recursive=True): the keys of the bucket, in key order
rb_list(t) ==
  LET r == th[t]  pb == _with_prefix(r.bucket) IN
  /\ r.pc = "rb_list"
  /\ UNCHANGED <<prefix, conn, note, nops, inject>>
  /\ \/ Fails(t, pb)
     \/ /\ Usable
        /\ IF pb \notin buckets
           THEN Refused(t, pb, "NoSuchBucket")
           ELSE /\ UNCHANGED <<buckets, objects>>
                /\ Set(t, [Answered(r, pb) EXCEPT
                             !.todo = KeysIn(pb),
                             !.pc = IF KeysIn(pb) = {} THEN "rb_bucket" ELSE "rb_remove"])

\* line 154: remove_object for the next listed key
rb_remove(t) ==
  LET r == th[t]  pb == _with_prefix(r.bucket)  k == FirstKey(r.todo) IN
  /\ r.pc = "rb_remove"
  /\ UNCHANGED <<prefix, conn, note, nops, inject>>
  /\ \/ Fails(t, pb)
     \/ /\ Usable
        /\ IF pb \notin buckets
           THEN Refused(t, pb, "NoSuchBucket")
           ELSE /\ objects' = DelObj(objects, pb, k)
                /\ UNCHANGED buckets
                /\ Set(t, [Answered(r, pb) EXCEPT
                             !.todo = @ \ {k}, !.rmIssued = TRUE,
                             !.pc = IF r.todo = {k} THEN "rb_bucket" ELSE "rb_remove"])

\* line 155: remove_bucket, refused by the service for a bucket that holds objects
rb_bucket(t) ==
  LET r == th[t]  pb == _with_prefix(r.bucket) IN
  /\ r.pc = "rb_bucket"
  /\ UNCHANGED <<prefix, conn, note, nops, inject>>
  /\ \/ Fails(t, pb)
     \/ /\ Usable
        /\ IF pb \notin buckets
           THEN Refused(t, pb, "NoSuchBucket")
           ELSE IF \E p \in DOMAIN objects : p[1] = pb
           THEN Refused(t, pb, "BucketNotEmpty")
           ELSE /\ buckets' = buckets \ {pb}
                /\ UNCHANGED objects
                /\ Set(t, Done(Answered(r, pb), "None"))

\* ------------------------------------------------------------ copy (159-181)
cp_exists(t) ==
  LET r == th[t]  pdest == _with_prefix(r.c_dst) IN
  /\ r.pc = "cp_exists"
  /\ UNCHANGED <<prefix, conn, note, nops, inject>>
  /\ \/ Fails(t, pdest)
     \/ /\ Usable
        /\ UNCHANGED <<buckets, objects>>
        /\ Set(t, [Answered(r, pdest) EXCEPT
                     !.pc = IF pdest \in buckets THEN "cp_stat" ELSE "cp_make"])

cp_make(t) ==
  LET r == th[t]  pdest == _with_prefix(r.c_dst) IN
  /\ r.pc = "cp_make"
  /\ UNCHANGED <<prefix, conn, note, nops, inject>>
  /\ \/ Fails(t, pdest)
     \/ /\ Usable
        /\ IF pdest \in buckets
           THEN Refused(t, pdest, "BucketAlreadyOwnedByYou")
           ELSE /\ buckets' = buckets \cup {pdest}
                /\ UNCHANGED objects
                /\ Set(t, [Answered(r, pdest) EXCEPT !.pc = "cp_stat"])

\* a variant of copy that does not probe the source
cp_stat_skip(t) ==
  /\ th[t].pc = "cp_stat"
  /\ UNCHANGED <<prefix, buckets, objects, conn, note, nops, inject>>
  /\ Set(t, [th[t] EXCEPT !.pc = "cp_copy"])

\* lines 166-170: stat_object on the source, any exception returns False
cp_stat(t) ==
  LET r == th[t]  psrc == _with_prefix(r.c_src) IN
  /\ r.pc = "cp_stat"
  /\ UNCHANGED <<prefix, conn, note, nops, inject>>
  /\ \/ Fails(t, psrc)
     \/ /\ Usable
        /\ IF HasObj(psrc, r.fnm)
           THEN /\ UNCHANGED <<buckets, objects>>
                /\ Set(t, [Answered(r, psrc) EXCEPT !.pc = "cp_copy"])
           ELSE Refused(t, psrc, IF psrc \in buckets THEN "NoSuchKey" ELSE "NoSuchBucket")

\* a variant that writes the copy under the source's key
CopyArgsSrcKey(r) ==
  [dst |-> <<_with_prefix(r.c_dst), r.fnm>>, src |-> <<_with_prefix(r.c_src), r.fnm>>]

\* lines 172-176: copy_object(pdest_bucket, dest_path, CopySource(psrc_bucket, src_path))
CopyArgs(r) ==
  [dst |-> <<_with_prefix(r.c_dst), r.dest_path>>, src |-> <<_with_prefix(r.c_src), r.fnm>>]

\* lines 172-177: the server-side copy.  The service refuses a copy of an object
\* onto itself that changes no metadata.
cp_copy(t) ==
  LET r == [th[t] EXCEPT !.cpIssued = Usable]
      psrc == CopyArgs(r).src[1]
      pdest == CopyArgs(r).dst[1]
      skey == CopyArgs(r).src[2]
      dkey == CopyArgs(r).dst[2]
  IN
  /\ r.pc = "cp_copy"
  /\ UNCHANGED <<prefix, conn, note, nops, inject>>
  /\ \/ /\ UNCHANGED <<buckets, objects>>
        /\ IF Usable
           THEN \E f \in Outcomes \ {"ok"} : Set(t, Except(Sent(Sent(r, psrc), pdest), f, TRUE))
           ELSE Set(t, Except(r, "exc", TRUE))
     \/ /\ Usable
        /\ LET q == Answered(Sent(r, psrc), pdest) IN
           IF ~HasObj(psrc, skey)
           THEN UNCHANGED <<buckets, objects>> /\ Set(t, Except(q, "NoSuchKey", FALSE))
           ELSE IF pdest \notin buckets
           THEN UNCHANGED <<buckets, objects>> /\ Set(t, Except(q, "NoSuchBucket", FALSE))
           ELSE IF <<psrc, skey>> = <<pdest, dkey>>
           THEN UNCHANGED <<buckets, objects>> /\ Set(t, Except(q, "InvalidRequest", FALSE))
           ELSE /\ objects' = PutObj(objects, pdest, dkey, objects[<<psrc, skey>>])
                /\ UNCHANGED buckets
                /\ Set(t, CopyReturn(q, "True"))

\* ------------------------------------------------------------ the record of calls
HasVal(n) == n.how \in {"put", "copy", "moved_to"}

Removed == [how |-> "removed", val |-> ""]

\* a call that may create bucket b ends what a remove_bucket recorded for it
Touch(n, b) ==
  [p \in DOMAIN n |-> IF p[1] = b /\ n[p] = Removed THEN Unknown ELSE n[p]]

\* what the completed call r did to the logical objects it names
NoteAfter(r) ==
  LET s == <<r.bucket, r.fnm>>
      d == <<r.dest_bucket, r.dest_path>>
  IN
  CASE r.op = "put" ->
         [Touch(note, r.bucket) EXCEPT
            ![s] = IF r.res = "Result"
                   THEN [how |-> "put", val |-> r.binary] ELSE Unknown]
    [] r.op = "rm" -> [note EXCEPT ![s] = Unknown]
    [] r.op = "copy" ->
         [Touch(note, r.dest_bucket) EXCEPT
            ![d] = IF r.res = "True" /\ HasVal(note[s])
                   THEN [how |-> "copy", val |-> note[s].val] ELSE Unknown]
    [] r.op = "move" ->
         IF s /= d /\ ~r.upset /\ note[s].how = "put"
         THEN [Touch(note, r.dest_bucket) EXCEPT
                 ![s] = [how |-> "moved_from", val |-> note[s].val],
                 ![d] = [how |-> "moved_to", val |-> note[s].val]]
         ELSE [Touch(note, r.dest_bucket) EXCEPT ![s] = Unknown, ![d] = Unknown]
    [] r.op = "remove_bucket" ->
         \* the keys the bucket held when an undisturbed remove_bucket began
         [p \in DOMAIN note |->
            IF p[1] /= r.bucket THEN note[p]
            ELSE IF ~r.upset /\ <<WithPrefix(prefix, p[1]), p[2]>> \in DOMAIN r.objs0
                 THEN Removed ELSE Unknown]
    [] OTHER -> note

\* the caller takes the result
Return(t) ==
  /\ th[t].pc = "done"
  /\ note' = NoteAfter(th[t])
  /\ Set(t, IdleT)
  /\ UNCHANGED <<prefix, buckets, objects, conn, nops, inject>>

\* ------------------------------------------------------------ one caller
Caller == {1}

\* __init__ (30-32): self.conn = None is done, the call of __open__ is next
Init ==
  /\ prefix \in Prefixes
  /\ buckets = {}
  /\ objects = NoObjects
  /\ conn = NoConn
  /\ th = [t \in Caller |-> [IdleT EXCEPT !.op = "__init__", !.pc = "open_if"]]
  /\ note = [p \in Buckets \X Keys |-> Unknown]
  /\ nops = 0
  /\ inject = TRUE

Call(t) ==
  \/ CallHealth(t) \/ CallPut(t) \/ CallRm(t) \/ CallGet(t) \/ CallObjExist(t)
  \/ CallBucketExists(t) \/ CallPresign(t) \/ CallRemoveBucket(t)
  \/ CallCopy(t) \/ CallMove(t)

Step(t) ==
  \/ h_exists(t) \/ h_make(t) \/ h_put(t)
  \/ put_exists(t) \/ put_make(t) \/ put_object(t)
  \/ rm_object(t) \/ get_object(t)
  \/ oe_exists(t) \/ oe_stat(t) \/ be_exists(t) \/ ps_url(t)
  \/ rb_exists(t) \/ rb_list(t) \/ rb_remove(t) \/ rb_bucket(t)
  \/ cp_exists(t) \/ cp_make(t) \/ cp_stat(t) \/ cp_copy(t)
  \/ open_if(t) \/ close_del(t) \/ close_none(t) \/ open_new(t) \/ sleep(t)

Next == \E t \in Caller : Call(t) \/ Step(t) \/ Return(t)

Spec == Init /\ [][Next]_vars

\* ------------------------------------------------------------ two callers
\* Two threads share the instance; each calls put once, on its own key of the
\* same bucket, which exists already or does not.  The instance was constructed
\* with a handle before the threads start; the environment fails nothing.
ConcCallers == {1, 2}
ConcBucket == "a"

InitConc ==
  /\ prefix \in Prefixes
  /\ buckets \in {{}, {WithPrefix(prefix, ConcBucket)}}
  /\ objects = NoObjects
  /\ conn = 1
  /\ th = [t \in ConcCallers |-> IdleT]
  /\ note = [p \in Buckets \X Keys |-> Unknown]
  /\ nops = 0
  /\ inject = FALSE

CallPutConc(t) ==
  \E v \in Bytes :
    Enter(t, [IdleT EXCEPT !.op = "put", !.pc = "put_exists", !.i = 1,
                           !.bucket = ConcBucket, !.fnm = KeyOrder[t], !.binary = v])

NextConc ==
  \E t \in ConcCallers :
    \/ CallPutConc(t)
    \/ put_exists(t) \/ put_make(t) \/ put_object(t)
    \/ open_if(t) \/ close_del(t) \/ close_none(t) \/ open_new(t) \/ sleep(t)

SpecConc == InitConc /\ [][NextConc]_vars

\* ------------------------------------------------------------ two tenant ids
\* One caller, no request failed by the environment.  The operations that take
\* tenant_id (put, rm, get, obj_exist, get_presigned_url) are called with a
\* tenant id; a completed call is then run a second time from the state its
\* first run began in, with the same arguments and another tenant id, and the
\* record of the second run carries the outcome of the first.
Tenants == {"None", "t1"}

TenantOps == {"put", "rm", "get", "obj_exist", "get_presigned_url"}

InitTenant ==
  /\ prefix \in Prefixes
  /\ buckets = {}
  /\ objects = NoObjects
  /\ conn \in {1, NoConn}
  /\ th = [t \in Caller |-> IdleT]
  /\ note = [p \in Buckets \X Keys |-> Unknown]
  /\ nops = 0
  /\ inject = FALSE

CallPutT(t) ==
  \E b \in Buckets, k \in Keys, v \in Bytes, x \in Tenants :
    Enter(t, [IdleT EXCEPT !.op = "put", !.pc = "put_exists", !.i = 1,
                           !.bucket = b, !.fnm = k, !.binary = v,
                           !.tenant_id = x, !.run = 1])

CallRmT(t) ==
  \E b \in Buckets, k \in Keys, x \in Tenants :
    Enter(t, [IdleT EXCEPT !.op = "rm", !.pc = "rm_object",
                           !.bucket = b, !.fnm = k, !.r_bucket = b,
                           !.tenant_id = x, !.run = 1])

CallGetT(t) ==
  \E b \in Buckets, k \in Keys, x \in Tenants :
    Enter(t, [IdleT EXCEPT !.op = "get", !.pc = "get_object", !.i = 1,
                           !.bucket = b, !.fnm = k,
                           !.tenant_id = x, !.run = 1])

CallObjExistT(t) ==
  \E b \in Buckets, k \in Keys, x \in Tenants :
    Enter(t, [IdleT EXCEPT !.op = "obj_exist", !.pc = "oe_exists",
                           !.bucket = b, !.fnm = k,
                           !.tenant_id = x, !.run = 1])

CallPresignT(t) ==
  \E b \in Buckets, k \in Keys, x \in Tenants :
    Enter(t, [IdleT EXCEPT !.op = "get_presigned_url", !.pc = "ps_url", !.i = 1,
                           !.bucket = b, !.fnm = k,
                           !.tenant_id = x, !.run = 1])

\* the record a call of r's operation with r's arguments starts from
Again(r) ==
  [IdleT EXCEPT !.op = r.op, !.i = IF r.op \in {"rm", "obj_exist"} THEN 0 ELSE 1,
                !.pc = CASE r.op = "rm" -> "rm_object"
                         [] r.op = "obj_exist" -> "oe_exists"
                         [] OTHER -> FirstStep(r.op),
                !.bucket = r.bucket, !.fnm = r.fnm, !.binary = r.binary,
                !.r_bucket = r.r_bucket,
                !.objs0 = r.objs0, !.bkts0 = r.bkts0, !.conn0 = r.conn0]

\* the second run: back in the state the first run began in, the same call
\* with another tenant id
Replay(t) ==
  LET r == th[t] IN
  /\ r.pc = "done" /\ r.run = 1
  /\ buckets' = r.bkts0
  /\ objects' = r.objs0
  /\ conn' = r.conn0
  /\ \E y \in Tenants \ {r.tenant_id} :
       Set(t, [Again(r) EXCEPT
                 !.tenant_id = y, !.run = 2,
                 !.first = [res |-> r.res, names |-> r.names, i |-> r.i,
                            fails |-> r.fails, opens |-> r.opens,
                            rmIssued |-> r.rmIssued,
                            objects |-> objects, buckets |-> buckets, conn |-> conn]])
  /\ UNCHANGED <<prefix, note, nops, inject>>

NextTenant ==
  \E t \in Caller :
    \/ CallPutT(t) \/ CallRmT(t) \/ CallGetT(t) \/ CallObjExistT(t) \/ CallPresignT(t)
    \/ put_exists(t) \/ put_make(t) \/ put_object(t)
    \/ rm_object(t) \/ get_object(t) \/ oe_exists(t) \/ oe_stat(t) \/ ps_url(t)
    \/ open_if(t) \/ close_del(t) \/ close_none(t) \/ open_new(t) \/ sleep(t)
    \/ Replay(t) \/ Return(t)

SpecTenant == InitTenant /\ [][NextTenant]_vars

\* ============================================================ claims
RetryOps == {"put", "get", "get_presigned_url"}
Src(r) == <<r.bucket, r.fnm>>
Dst(r) == <<r.dest_bucket, r.dest_path>>
\* where the service keeps the object the callers know as (bucket, key)
Home(b, k) == <<WithPrefix(prefix, b), k>>

\* C1: a put call never begins more than 3 attempts and never raises; when no
\* request of the call was answered (every remote call failed, or there was no
\* handle to send it through), the call made exactly 3 attempts and returned no
\* result.
C1_PutThreeAttemptsThenNone ==
  \A t \in DOMAIN th :
    LET r == th[t] IN
    r.op = "put" =>
      /\ r.i <= 3
      /\ r.res /= "raised"
      /\ (r.pc = "done" /\ ~r.anyOk => r.i = 3 /\ r.fails = 3 /\ r.res = "None")

C1_Witness ==
  \E t \in DOMAIN th :
    /\ th[t].op = "put" /\ th[t].pc = "done" /\ ~th[t].anyOk
    /\ th[t].names /= {} /\ th[t].fails = 3 /\ th[t].res = "None"

\* C2: a get that no failure disturbs, on a (bucket, key) whose last toucher was
\* a put that returned its result, returns exactly the bytes of that put, with
\* an empty and with a non-empty prefix.
C2_PutThenGet ==
  \A t \in DOMAIN th :
    LET r == th[t] IN
    r.op = "get" /\ r.pc = "done" /\ ~r.upset /\ note[Src(r)].how = "put"
      => r.res = note[Src(r)].val

C2_Witness ==
  \E t \in DOMAIN th :
    /\ th[t].op = "get" /\ th[t].pc = "done" /\ ~th[t].upset
    /\ note[Src(th[t])].how = "put" /\ prefix /= ""
    /\ th[t].res = "y"

\* C3: every bucket name a call passes to the connection is one of the
\* caller's bucket names with the prefix transform applied exactly once.
C3_PrefixExactlyOnce ==
  \A t \in DOMAIN th :
    LET r == th[t] IN
    r.names \subseteq {WithPrefix(prefix, b) : b \in {r.bucket, r.dest_bucket} \ {""}}

\* C4: after a move that no failure disturbs, of a source stored with put to
\* another place, an undisturbed get of the source returns no result, obj_exist
\* of the source returns false and get of the destination returns the bytes.
C4_MoveThenSourceGone ==
  \A t \in DOMAIN th :
    LET r == th[t]  n == note[Src(r)] IN
    r.pc = "done" /\ ~r.upset =>
      /\ (r.op = "get" /\ n.how = "moved_from" => r.res = "None")
      /\ (r.op = "obj_exist" /\ n.how = "moved_from" => r.res = "False")
      /\ (r.op = "get" /\ n.how = "moved_to" => r.res = n.val)

\* C5: when copy has returned true, the destination bucket exists, the
\* destination object holds the bytes the source object held when copy was
\* called, and the source object holds them still; an undisturbed get of the
\* destination directly after returns those bytes.
C5_CopyThenGet ==
  \A t \in DOMAIN th :
    LET r == th[t] IN
    /\ r.op = "copy" /\ r.pc = "done" /\ r.res = "True" =>
         /\ WithPrefix(prefix, r.dest_bucket) \in buckets
         /\ Home(r.bucket, r.fnm) \in DOMAIN r.objs0
         /\ Home(r.bucket, r.fnm) \in DOMAIN objects
         /\ Home(r.dest_bucket, r.dest_path) \in DOMAIN objects
         /\ objects[Home(r.bucket, r.fnm)] = r.objs0[Home(r.bucket, r.fnm)]
         /\ objects[Home(r.dest_bucket, r.dest_path)] = r.objs0[Home(r.bucket, r.fnm)]
    /\ r.op = "get" /\ r.pc = "done" /\ ~r.upset /\ note[Src(r)].how = "copy" =>
         r.res = note[Src(r)].val

C5_Witness ==
  \E t \in DOMAIN th :
    /\ th[t].op = "copy" /\ th[t].pc = "done" /\ th[t].res = "True"
    /\ WithPrefix(prefix, th[t].dest_bucket) \notin th[t].bkts0
    /\ prefix /= ""

\* C6: in move, remove_object is reached and issued only after copy returned
\* True; when copy returned False, move returns False, has issued no
\* remove_object, and no object of the store has changed.
C6_DeleteOnlyAfterCopy ==
  \A t \in DOMAIN th :
    LET r == th[t] IN
    r.op = "move" =>
      /\ (r.pc = "rm_object" \/ r.rmIssued => r.copied = "True")
      /\ (r.pc = "done" /\ r.copied /= "True" =>
            r.copied = "False" /\ r.res = "False" /\ ~r.rmIssued /\ objects = r.objs0)

C6_Witness ==
  \E t \in DOMAIN th :
    /\ th[t].op = "move" /\ th[t].pc = "done" /\ th[t].copied = "False"
    /\ Home(th[t].bucket, th[t].fnm) \in DOMAIN objects
    /\ th[t].res = "False"

\* C7 as stated: no call of any operation, health included, ends in a raised
\* exception.
C7_NoOperationRaises ==
  \A t \in DOMAIN th : th[t].res /= "raised"

\* C7 amended: no operation other than health raises, whatever fails and also
\* with a null connection: each ends with a return value.  health has no
\* handler: it raises whenever one of its requests fails or there is no handle.
C7_OnlyHealthRaises ==
  \A t \in DOMAIN th :
    LET r == th[t] IN
    /\ r.op /= "health" => r.res /= "raised"
    /\ r.op /= "health" /\ r.pc = "done" =>
         r.res \in {"None", "False", "True", "Result", "Url"} \cup Bytes
    /\ r.op = "health" /\ r.pc = "done" => (r.res = "raised" <=> r.fails > 0)

C7_Witness ==
  \E t \in DOMAIN th :
    /\ th[t].op = "rm" /\ th[t].pc = "done" /\ th[t].conn0 = NoConn
    /\ th[t].upset /\ th[t].res = "None"

\* C8: obj_exist and bucket_exists return exactly true or false.
C8_ExistsIsBoolean ==
  \A t \in DOMAIN th :
    th[t].op \in {"obj_exist", "bucket_exists"} /\ th[t].pc = "done"
      => th[t].res \in {"True", "False"}

\* C9 as stated: every call in which an exception was handled has run the
\* reconnect before it returned.
C9_ReconnectOnAnyFailure ==
  \A t \in DOMAIN th :
    th[t].pc = "done" /\ th[t].fails > 0 => th[t].opens > 0

\* C9 amended: in put, get and get_presigned_url every failed attempt is
\* followed by one reconnect before the call pauses, retries or returns, and the
\* reconnect leaves self.conn null or the handle it has just created;
\* rm, obj_exist, bucket_exists, remove_bucket, copy, move and health never
\* reconnect and leave self.conn as they found it.
C9_ReconnectOnlyInRetryOps ==
  \A t \in DOMAIN th :
    LET r == th[t] IN
    /\ r.op \in RetryOps /\ r.pc \in {"open_if", "close_del", "close_none", "open_new"}
         => r.opens + 1 = r.fails
    /\ r.op \in RetryOps /\ r.pc \notin {"open_if", "close_del", "close_none", "open_new"}
         => r.opens = r.fails
    /\ r.op \in RetryOps /\ r.pc = "sleep" => conn = NoConn \/ (conn > NoConn /\ r.made)
    /\ r.op \notin RetryOps \cup {"__init__"} /\ r.pc /= "idle"
         => r.opens = 0 /\ conn = r.conn0

C9_Witness ==
  \E t \in DOMAIN th :
    /\ th[t].op = "put" /\ th[t].pc = "sleep" /\ th[t].opens = 2
    /\ th[t].conn0 > NoConn /\ conn > NoConn /\ th[t].made

\* C10: two concurrent put calls on distinct keys of one bucket, with no request
\* failed by the environment, each return the upload result, and the object of
\* each is in the store with its bytes.
C10_ConcurrentPutsSucceed ==
  \A t \in DOMAIN th :
    LET r == th[t] IN
    r.op = "put" /\ r.pc = "done" =>
      /\ r.res = "Result"
      /\ Home(r.bucket, r.fnm) \in DOMAIN objects
      /\ objects[Home(r.bucket, r.fnm)] = r.binary

\* C11: remove_bucket that no failure disturbs, on a bucket that exists and
\* holds N objects, deletes the N objects while the bucket still exists and only
\* then the bucket; when it returns, the bucket and its objects are gone, and
\* every other bucket and object is as it was.  Afterwards an undisturbed
\* obj_exist of each of those keys and bucket_exists of the bucket return false.
C11_RemoveBucketRemovesAll ==
  \A t \in DOMAIN th :
    LET r == th[t]
        pb == WithPrefix(prefix, r.bucket)
        held == {k \in Keys : <<pb, k>> \in DOMAIN objects}
        rest(objs) == [p \in {q \in DOMAIN objs : q[1] /= pb} |-> objs[p]]
    IN
    /\ r.op = "remove_bucket" /\ r.pc = "rb_remove" =>
         pb \in buckets /\ r.todo /= {} /\ r.todo = held
    /\ r.op = "remove_bucket" /\ r.pc = "rb_bucket" => held = {}
    /\ r.op = "remove_bucket" /\ r.pc = "done" /\ ~r.upset =>
         /\ pb \notin buckets
         /\ held = {}
         /\ buckets \ {pb} = r.bkts0 \ {pb}
         /\ rest(objects) = rest(r.objs0)
         /\ ((\E p \in DOMAIN r.objs0 : p[1] = pb) => r.rmIssued)
         /\ r.res = "None"
    /\ r.op = "obj_exist" /\ r.pc = "done" /\ ~r.upset /\ note[Src(r)] = Removed =>
         r.res = "False"
    /\ r.op = "bucket_exists" /\ r.pc = "done" /\ ~r.upset
         /\ (\E k \in Keys : note[<<r.bucket, k>>] = Removed) => r.res = "False"

\* a bucket of two objects removed
C11_Witness ==
  \E t \in DOMAIN th :
    LET r == th[t]  pb == WithPrefix(prefix, r.bucket) IN
    /\ r.op = "remove_bucket" /\ r.pc = "done" /\ ~r.upset
    /\ \A k \in Keys : <<pb, k>> \in DOMAIN r.objs0
    /\ pb \notin buckets /\ r.rmIssued /\ prefix /= ""

\* C12: a get_presigned_url call never begins more than 10 attempts and never
\* raises; when every attempt of the call failed (no request was answered), the
\* call made exactly 10 attempts, each followed by a reconnect, and returned no
\* result.
C12_PresignTenAttemptsThenNone ==
  \A t \in DOMAIN th :
    LET r == th[t] IN
    r.op = "get_presigned_url" =>
      /\ r.i >= 1 /\ r.i <= 10
      /\ r.fails <= r.i
      /\ r.res /= "raised"
      /\ (r.pc = "done" /\ ~r.anyOk =>
            r.i = 10 /\ r.fails = 10 /\ r.opens = 10 /\ r.res = "None")

C12_Witness ==
  \E t \in DOMAIN th :
    /\ th[t].op = "get_presigned_url" /\ th[t].pc = "done" /\ ~th[t].anyOk
    /\ th[t].names /= {} /\ th[t].fails = 10 /\ th[t].res = "None"

\* C13 as stated: construction does not raise, and every operation called on
\* an instance whose connection is null re-opens the connection.
C13_AnyOperationReopens ==
  \A t \in DOMAIN th :
    LET r == th[t] IN
    /\ r.op = "__init__" => r.res /= "raised"
    /\ r.op /= "__init__" /\ r.conn0 = NoConn /\ r.pc = "done" => r.opens >= 1

\* C13 amended: construction ends without raising, with a handle, or with a null
\* connection when opening failed.  On a null connection put, get and
\* get_presigned_url fail their first attempt and re-open the connection: put
\* that fails nothing more returns the upload result of its second attempt, get
\* returns no result after its re-open.  rm, obj_exist, bucket_exists,
\* remove_bucket, copy, move and health sent no request, do not re-open and leave
\* the connection null.
C13_NullConnectionReopenedByRetryOps ==
  \A t \in DOMAIN th :
    LET r == th[t] IN
    /\ r.op = "__init__" =>
         /\ r.res /= "raised"
         /\ r.pc = "done" =>
              r.res = "None" /\ r.opens = 1
              /\ (IF r.made THEN conn > NoConn ELSE conn = NoConn)
    /\ r.op \in RetryOps /\ r.conn0 = NoConn /\ r.pc = "done" =>
         r.opens >= 1 /\ r.res /= "raised"
    /\ r.op = "put" /\ r.conn0 = NoConn /\ r.pc = "done" /\ r.fails = 1 =>
         /\ r.res = "Result" /\ r.i = 2 /\ conn > NoConn
         /\ Home(r.bucket, r.fnm) \in DOMAIN objects
    /\ r.op = "get" /\ r.conn0 = NoConn /\ r.pc = "done" =>
         r.res = "None" /\ r.opens = 1 /\ r.names = {}
    /\ r.op \notin RetryOps \cup {"__init__"} /\ r.conn0 = NoConn /\ r.pc = "done" =>
         /\ r.opens = 0 /\ conn = NoConn /\ r.names = {}
         /\ r.res \in {"None", "False", "raised"}

\* after a failed construction, a put that re-opened and then succeeded
C13_Witness ==
  \E t \in DOMAIN th :
    /\ th[t].op = "put" /\ th[t].pc = "done" /\ th[t].conn0 = NoConn
    /\ th[t].fails = 1 /\ th[t].res = "Result" /\ nops = 1

\* C14: the tenant id has no effect.  When put, rm, get, obj_exist or
\* get_presigned_url has run twice from the same state with the same arguments
\* and two different tenant ids, the second run has sent its requests to the
\* same prefixed bucket, made as many attempts and reconnects, returned the same
\* result and left the same buckets, objects and connection as the first.
C14_TenantIdHasNoEffect ==
  \A t \in DOMAIN th :
    LET r == th[t] IN
    /\ r.op \in TenantOps => r.names \subseteq {WithPrefix(prefix, r.bucket)}
    /\ r.run = 2 /\ r.pc = "done" =>
         /\ r.res = r.first.res
         /\ r.names = r.first.names
         /\ r.i = r.first.i /\ r.fails = r.first.fails /\ r.opens = r.first.opens
         /\ r.rmIssued = r.first.rmIssued
         /\ objects = r.first.objects
         /\ buckets = r.first.buckets
         /\ conn = r.first.conn

\* a get that found the object, run again under the other tenant id
C14_Witness ==
  \E t \in DOMAIN th :
    /\ th[t].op = "get" /\ th[t].run = 2 /\ th[t].pc = "done"
    /\ th[t].tenant_id = "t1" /\ th[t].res \in Bytes /\ th[t].first.res \in Bytes

\* C15: a get call makes one retrieval attempt and no more.  When the attempt
\* fails, the call reconnects once, then pauses once, then returns no result,
\* also when the reconnect gave a handle and the object is in the store.
C15_GetSingleAttempt ==
  \A t \in DOMAIN th :
    LET r == th[t] IN
    r.op = "get" =>
      /\ r.i = 1 /\ r.fails <= 1
      /\ r.pc = "get_object" => r.fails = 0 /\ r.opens = 0 /\ r.pauses = 0
      /\ r.pc \in {"open_if", "close_del", "close_none", "open_new"} =>
           r.fails = 1 /\ r.opens = 0 /\ r.pauses = 0
      /\ r.pc = "sleep" => r.fails = 1 /\ r.opens = 1 /\ r.pauses = 0
      /\ r.pc = "done" /\ r.fails = 1 =>
           r.opens = 1 /\ r.pauses = 1 /\ r.res = "None"
      /\ r.pc = "done" /\ r.fails = 0 =>
           r.opens = 0 /\ r.pauses = 0 /\ r.res \in Bytes

\* a failed get that returned no result although its reconnect gave a handle
\* and the object is there
C15_Witness ==
  \E t \in DOMAIN th :
    /\ th[t].op = "get" /\ th[t].pc = "done" /\ th[t].fails = 1
    /\ th[t].made /\ conn > NoConn
    /\ Home(th[t].bucket, th[t].fnm) \in DOMAIN objects
    /\ th[t].res = "None" /\ th[t].pauses = 1

\* C16: within one put call every failed attempt is followed by one reconnect
\* and then one pause before the next attempt starts: while attempt i runs, the
\* call has failed, reconnected and paused i - 1 times; during the reconnect it
\* has failed i times; at the pause it has reconnected i times and paused i - 1
\* times.  The call returns the upload result at the first attempt that does not
\* fail, and no result after three failed attempts.
C16_PutReconnectThenPause ==
  \A t \in DOMAIN th :
    LET r == th[t] IN
    r.op = "put" =>
      /\ r.pc \in {"put_exists", "put_make", "put_object"} =>
           r.fails = r.i - 1 /\ r.opens = r.i - 1 /\ r.pauses = r.i - 1
      /\ r.pc \in {"open_if", "close_del", "close_none", "open_new"} =>
           r.fails = r.i /\ r.opens = r.i - 1 /\ r.pauses = r.i - 1
      /\ r.pc = "sleep" =>
           r.fails = r.i /\ r.opens = r.i /\ r.pauses = r.i - 1
      /\ r.pc = "done" =>
           /\ r.opens = r.fails /\ r.pauses = r.fails
           /\ r.res \in {"Result", "None"}
           /\ r.res = "Result" =>
                /\ r.fails = r.i - 1
                /\ Home(r.bucket, r.fnm) \in DOMAIN objects
                /\ objects[Home(r.bucket, r.fnm)] = r.binary
           /\ r.res = "None" => r.fails = r.i /\ r.i = 3

\* a put that failed twice and returned the result of its third attempt
C16_Witness ==
  \E t \in DOMAIN th :
    /\ th[t].op = "put" /\ th[t].pc = "done" /\ th[t].res = "Result"
    /\ th[t].i = 3 /\ th[t].fails = 2 /\ th[t].opens = 2 /\ th[t].pauses = 2

\* C17: two threads share self.conn without a lock.  With no request failed by
\* the environment, an attempt of a thread fails either because the service
\* refuses make_bucket for a bucket the other thread has just created, or
\* because the thread reads self.conn while it is deleted or null inside the
\* other thread's reconnect (after its del self.conn or self.conn = None, before
\* its self.conn = Minio(...)); in the second case no request is sent, so the
\* service reports nothing.  C17_Witness is such an interleaving.
C17_FailsInsideOtherReconnect ==
  [][\A t \in DOMAIN th :
       th'[t].fails > th[t].fails =>
         IF conn > NoConn
         THEN /\ th[t].pc = "put_make"
              /\ WithPrefix(prefix, th[t].bucket) \in buckets
              /\ ~th'[t].upset
         ELSE /\ \E u \in DOMAIN th \ {t} : th[u].pc \in {"close_none", "open_new"}
              /\ th'[t].names = th[t].names
              /\ th'[t].upset
              /\ th'[t].pc = "open_if"]_vars

\* thread t has just failed its first attempt on the discarded connection while
\* u is inside its reconnect; the bucket exists and the service failed nothing
C17_Witness ==
  \E t \in DOMAIN th, u \in DOMAIN th :
    /\ t /= u /\ ~inject
    /\ th[t].op = "put" /\ th[t].pc = "open_if" /\ th[t].upset /\ th[t].fails = 1
    /\ conn <= NoConn
    /\ th[u].op = "put" /\ th[u].pc \in {"close_none", "open_new"}
    /\ WithPrefix(prefix, th[t].bucket) \in buckets

\* C18: with one caller, __open__ has discarded the connection it held before
\* it creates the new one (self.conn is null when Minio(...) is called), and
\* when __open__ has returned self.conn is the handle it has just created or,
\* when creating it failed, null: never the handle held before, and never a
\* deleted attribute.
C18_ReconnectNeverKeepsOldHandle ==
  \A t \in DOMAIN th :
    LET r == th[t] IN
    /\ r.pc = "close_del" => conn > NoConn
    /\ r.pc = "close_none" => conn = NoAttr
    /\ r.pc = "open_new" => conn = NoConn
    /\ r.pc = "sleep" \/ (r.op = "__init__" /\ r.pc = "done") =>
         /\ r.opens >= 1
         /\ IF r.made THEN conn > NoConn ELSE conn = NoConn
    /\ r.pc /= "close_none" => conn /= NoAttr

\* a call that began with a handle, failed, and whose first reconnect could not
\* create a handle: the connection is null
C18_Witness ==
  \E t \in DOMAIN th :
    /\ th[t].pc = "sleep" /\ th[t].opens = 1 /\ th[t].conn0 > NoConn
    /\ ~th[t].made /\ conn = NoConn

\* C19 as stated: a copy whose source object is absent returns false, does not
\* issue the server-side copy and leaves the store as it was: the same objects
\* and the same buckets.
C19_FailedCopyLeavesStore ==
  \A t \in DOMAIN th :
    LET r == th[t] IN
    r.op = "copy" /\ Home(r.bucket, r.fnm) \notin DOMAIN r.objs0 =>
      /\ r.pc /= "cp_copy" /\ ~r.cpIssued
      /\ objects = r.objs0
      /\ buckets = r.bkts0
      /\ r.pc = "done" => r.res = "False"

\* C19 amended: a copy whose source object is absent returns false, does not
\* issue the server-side copy and leaves every object as it was.  It creates no
\* bucket other than the destination bucket, which it creates when it is absent
\* before it probes the source: after a call that no failure disturbed the
\* destination bucket exists.
C19_FailedCopyKeepsObjects ==
  \A t \in DOMAIN th :
    LET r == th[t]  pdest == WithPrefix(prefix, r.dest_bucket) IN
    r.op = "copy" /\ Home(r.bucket, r.fnm) \notin DOMAIN r.objs0 =>
      /\ r.pc /= "cp_copy" /\ ~r.cpIssued
      /\ objects = r.objs0
      /\ r.bkts0 \subseteq buckets /\ buckets \subseteq r.bkts0 \cup {pdest}
      /\ r.pc = "done" => r.res = "False"
      /\ r.pc = "done" /\ ~r.upset => pdest \in buckets

\* the source is absent, the destination bucket was absent and now exists
C19_Witness ==
  \E t \in DOMAIN th :
    LET r == th[t]  pdest == WithPrefix(prefix, r.dest_bucket) IN
    /\ r.op = "copy" /\ r.pc = "done" /\ r.res = "False" /\ ~r.upset
    /\ Home(r.bucket, r.fnm) \notin DOMAIN r.objs0
    /\ pdest \notin r.bkts0 /\ pdest \in buckets

\* C20: whenever move has returned true, the source object is no longer in the
\* store; when the copy succeeded and the removal of the source failed, move
\* has not returned true.
C20_MoveTrueSourceGone ==
  \A t \in DOMAIN th :
    LET r == th[t] IN
    r.op = "move" /\ r.pc = "done" =>
      /\ r.res = "True" => Home(r.bucket, r.fnm) \notin DOMAIN objects
      /\ r.copied = "True" /\ ~r.rmIssued => r.res /= "True"

====
